---- MODULE Spec2Model ----
(***************************************************************************)
(* State-machine model of the two scripts of the repository:               *)
(*   scripts/Panda/panda_inference/inference_diffusion_panda.py            *)
(*       main(): the receding-horizon sampling-and-control loop,           *)
(*       mpc_cost(), diffusion_horizon_states(), state_loading()           *)
(*   scripts/train_diffusion/NN_cart_pole_train.py                         *)
(*       the manual training loop with EMA, validation and checkpoints     *)
(*                                                                         *)
(* Abstractions.  The 7 joints, the 3 Cartesian coordinates and the        *)
(* network parameters are each one integer.  The loop sizes of the source  *)
(* (SAMPLING_STEPS = 200, CONTROL_RATE = 10, HORIZON = 128, epochs = 300,  *)
(* ...) are scaled down to small values; the control flow is the source's. *)
(* The physics engine and the diffusion sampler are external: mj_step is a *)
(* one-joint semi-implicit Euler step, the sampler returns any chain.      *)
(***************************************************************************)
EXTENDS Integers, Sequences, FiniteSets, TLC

\* ------------------------------------------------------------------------
\* Sizes of the inference loop (scaled down from the source's values)
\* ------------------------------------------------------------------------
\* source: SAMPLING_STEPS = 200
SAMPLING_STEPS == 2
\* source: CONTROL_RATE = 10
CONTROL_RATE == 2
\* source: HORIZON = 128 (= dataset.n_support_points)
HORIZON == 2
\* number of entries of the sample chain returned by run_CFG (source: 31)
ChainLen == 2

\* TARGET_POS, one coordinate (source: [0.3, 0.3, 0.5])
TARGET_POS == 3
\* cost weights in units of 0.5 (source: Q = diag(10), R = 0.5, P = diag(10))
Q == 20
R == 1
P == 20

\* normalized control values the sampler can return
NormVals == {-1, 1}
\* wall-clock durations a time.time() difference can take
Durations == {1, 2}

VARIABLES
    \* ---- inference_diffusion_panda.py, main() ----
    pc,                      \* position in main()
    panda_step,              \* loop variable of the sampling loop
    sampling_step,           \* row index of the per-tick arrays
    data,                    \* the main simulator's MjData
    q_current_pos, x_current_pos, context_current,
    inputs_normalized_iters, \* sample chain of the current tick
    inputs_final,            \* last entry of the unnormalized chain
    diffusion_predicted_states,
    cost,
    x_pos_memory, q_pos_memory, ctl_memory, abs_dis_memory, cost_memory,
    single_time_set,
    x_last_pos,              \* result of the final state_loading
    reported,                \* the printed 'fianl abs distance'
    disk,                    \* the .npy files written by np.save
    events,                  \* calls made by the current loop iteration
    writes,                  \* number of writes to each row of each array
    final_reads,             \* number of executions of line 161
    \* ---- a call of mpc_cost on arbitrary arguments ----
    cpc, c_states, c_controls, c_Q, c_R, c_P, c_cost,
    \* ---- NN_cart_pole_train.py ----
    tpc,                     \* position in the training script
    train_dataloader,        \* batch sizes of the training loader
    val_dataloader,          \* None, or batch sizes of the validation loader
    epoch, step,             \* loop variables
    train_steps_current,
    model,                   \* the trained parameters
    ema_model,               \* the EMA parameters
    grad,                    \* the gradient held by the parameters
    loss, single_loss, train_loss_batch,
    step_val, val_losses, total_val_loss,
    train_losses_l, validation_losses_l,
    checkpoints,             \* calls of save_nn_models_to_disk, in order
    tevents,                 \* operations of the current training step
    pbar                     \* the progress bar of line 326

ivars == <<pc, panda_step, sampling_step, data, q_current_pos, x_current_pos,
           context_current, inputs_normalized_iters, inputs_final,
           diffusion_predicted_states, cost, x_pos_memory, q_pos_memory,
           ctl_memory, abs_dis_memory, cost_memory, single_time_set,
           x_last_pos, reported, disk, events, writes, final_reads>>

cvars == <<cpc, c_states, c_controls, c_Q, c_R, c_P, c_cost>>

tvars == <<tpc, train_dataloader, val_dataloader, epoch, step,
           train_steps_current, model, ema_model, grad, loss, single_loss,
           train_loss_batch, step_val, val_losses, total_val_loss,
           train_losses_l, validation_losses_l, checkpoints, tevents,
           pbar>>

vars == <<ivars, cvars, tvars>>

\* ------------------------------------------------------------------------
\* Helpers
\* ------------------------------------------------------------------------
Rows == 0 .. (SAMPLING_STEPS - 1)

Abs(x) == IF x < 0 THEN -x ELSE x

Sq(x) == x * x

Last(s) == s[Len(s)]

RECURSIVE SumRows(_, _)
SumRows(mem, n) == IF n = 0 THEN 0 ELSE mem[n - 1] + SumRows(mem, n - 1)

\* a sum that leaves the last row out
np_sum_short(mem) == SumRows(mem, SAMPLING_STEPS - 1)

\* np.sum over a (SAMPLING_STEPS, 1) array
np_sum(mem) == SumRows(mem, SAMPLING_STEPS)

\* np.zeros((SAMPLING_STEPS, k))
np_zeros == [r \in Rows |-> 0]

MemNames == {"q_pos_memory", "x_pos_memory", "abs_dis_memory",
             "single_time_set", "cost_memory", "ctl_memory"}

\* mem[row, :] = val ; an index outside the array raises IndexError
WriteRow(mem, row, val) == [mem EXCEPT ![row] = val]

CountWrite(w, names, row) ==
    [n \in MemNames |-> IF n \in names
                        THEN [w[n] EXCEPT ![row] = @ + 1]
                        ELSE w[n]]

\* ------------------------------------------------------------------------
\* The physics engine (external): one joint, semi-implicit Euler
\* ------------------------------------------------------------------------
\* forward kinematics of body 9 ('hand')
FK(q) == 2 * q + 1

\* position Jacobian of FK
jacp == 2

\* mujoco.MjData(model)
MjData == [qpos |-> 0, qvel |-> 0, ctrl |-> 0, xpos |-> 0, time |-> 0]

\* a physics step that clears the actuator controls
mj_step_clear_ctrl(d) ==
    LET v == d.qvel + d.ctrl
    IN  [qpos |-> d.qpos + v, qvel |-> v, ctrl |-> 0,
         xpos |-> FK(d.qpos), time |-> d.time + 1]

\* mujoco.mj_step: kinematics of the current qpos, then integration
mj_step(d) ==
    LET v == d.qvel + d.ctrl
    IN  [qpos |-> d.qpos + v, qvel |-> v, ctrl |-> d.ctrl,
         xpos |-> FK(d.qpos), time |-> d.time + 1]

\* state_loading(panda, data): <<q_current_pos, x_current_pos, context>>
state_loading(d) ==
    <<d.qpos, d.xpos, <<d.qpos, d.qvel, d.xpos, jacp * d.qvel>>>>

\* dataset.unnormalize_states on one value (limits normalizer, [-1,1] -> [0,1])
unnormalize_value(v) == (v + 1) \div 2

\* dataset.unnormalize_states on the whole chain
unnormalize_states(chain) ==
    [i \in 1 .. Len(chain) |->
        [k \in 1 .. Len(chain[i]) |-> unnormalize_value(chain[i][k])]]

\* a trajectory whose HORIZON controls are all v
ConstTraj(v) == [k \in 1 .. HORIZON |-> v]

\* the chains run_CFG(return_chain=True) is taken to return, ChainLen x
\* HORIZON: any trajectory as the last entry, a constant trajectory as each
\* of the intermediate entries
Chains ==
    {chain \in [1 .. ChainLen -> [1 .. HORIZON -> NormVals]] :
        \A i \in 1 .. (ChainLen - 1) :
            \E v \in NormVals : chain[i] = ConstTraj(v)}

\* ------------------------------------------------------------------------
\* diffusion_horizon_states: rollout on a separately created model and data
\* ------------------------------------------------------------------------
RECURSIVE rollout_data(_, _, _)
rollout_data(d, inputs, k) ==
    IF k = 0 THEN d
    ELSE mj_step([rollout_data(d, inputs, k - 1) EXCEPT !.ctrl = inputs[k]])

\* lines 484-486: a new MjData whose joint positions are set to q_pos
new_data_cost(q_pos) == [MjData EXCEPT !.qpos = q_pos]

\* result: sequence of HORIZON+1 positions (Python index i is element i+1)
diffusion_horizon_states(x_pos, inputs, q_pos) ==
    LET data_cost == mj_step(new_data_cost(q_pos))
    IN  [k \in 1 .. (HORIZON + 1) |->
            rollout_data(data_cost, inputs, k - 1).xpos]

\* ------------------------------------------------------------------------
\* mpc_cost
\* ------------------------------------------------------------------------
dev_cost(w, x) == w * Sq(x - TARGET_POS)

\* the stage position read at index i instead of i+1
stage_term_same_index(states, controls, Qw, Rw, i) ==
    LET x_i   == states[i + 1]
        u_i_1 == controls[i + 1]
        u_i   == controls[(i + 1) + 1]
    IN  dev_cost(Qw, x_i) + Rw * Sq(u_i - u_i_1)

\* the body of the stage-cost loop for Python index i
stage_term(states, controls, Qw, Rw, i) ==
    LET x_i   == states[(i + 1) + 1]
        u_i_1 == controls[i + 1]
        u_i   == controls[(i + 1) + 1]
    IN  dev_cost(Qw, x_i) + Rw * Sq(u_i - u_i_1)

\* for i in range(n): cost += stage_term(i)
RECURSIVE stage_loop(_, _, _, _, _)
stage_loop(states, controls, Qw, Rw, n) ==
    IF n <= 0 THEN 0
    ELSE stage_loop(states, controls, Qw, Rw, n - 1)
         + stage_term(states, controls, Qw, Rw, n - 1)

mpc_cost(predicted_states, predicted_controls, Qw, Rw, Pw) ==
    LET x_0   == predicted_states[1]
        x_end == Last(predicted_states)
    IN  dev_cost(Qw, x_0)
        + stage_loop(predicted_states, predicted_controls, Qw, Rw,
                     Len(predicted_controls) - 1)
        + dev_cost(Pw, x_end)

\* ------------------------------------------------------------------------
\* main(): initial state (lines 41-100)
\* ------------------------------------------------------------------------
\* a file of the results directory: not written, or an array of a shape
NoFile == [saved |-> FALSE, shape |-> <<>>, value |-> 0]

np_save(shape, value) == [saved |-> TRUE, shape |-> shape, value |-> value]

InferInit ==
    /\ pc = "loop"
    /\ panda_step = 0
    /\ sampling_step = 0
    \* data.qpos[:7] = ini_joint_states ; mujoco.mj_step(panda, data)
    /\ data = mj_step([MjData EXCEPT !.qpos = 0])
    /\ q_current_pos = 0
    /\ x_current_pos = 0
    /\ context_current = <<0, 0, 0, 0>>
    /\ inputs_normalized_iters = <<>>
    /\ inputs_final = <<>>
    /\ diffusion_predicted_states = <<>>
    /\ cost = 0
    /\ x_pos_memory = np_zeros
    /\ q_pos_memory = np_zeros
    /\ ctl_memory = np_zeros
    /\ abs_dis_memory = np_zeros
    /\ cost_memory = np_zeros
    /\ single_time_set = np_zeros
    /\ x_last_pos = 0
    /\ reported = -1
    /\ disk = [x_trag |-> NoFile, solving_time |-> NoFile,
               single_time |-> NoFile, cost_file |-> NoFile]
    /\ events = <<>>
    /\ writes = [n \in MemNames |-> [r \in Rows |-> 0]]
    /\ final_reads = 0

\* ------------------------------------------------------------------------
\* main(): the sampling loop (lines 103-162)
\* ------------------------------------------------------------------------
NumIterations == SAMPLING_STEPS * CONTROL_RATE

\* a control tick on the last iteration of each period instead of the first
IsControlTick_late(i) == i % CONTROL_RATE = CONTROL_RATE - 1

IsControlTick(i) == i % CONTROL_RATE = 0

\* line 103, 105: the for statement and the control-tick test
LoopHead ==
    /\ pc = "loop"
    /\ IF panda_step < NumIterations
       THEN /\ pc' = IF IsControlTick(panda_step) THEN "load" ELSE "step"
            /\ events' = <<>>
       ELSE /\ pc' = "report"
            /\ UNCHANGED events
    /\ UNCHANGED <<cvars, tvars>>
    /\ UNCHANGED <<panda_step, sampling_step, data, q_current_pos,
                   x_current_pos, context_current, inputs_normalized_iters,
                   inputs_final, diffusion_predicted_states, cost,
                   x_pos_memory, q_pos_memory, ctl_memory, abs_dis_memory,
                   cost_memory, single_time_set, x_last_pos, reported, disk,
                   writes, final_reads>>

\* lines 107-115: state_loading and the first three array rows
LoadState ==
    /\ pc = "load"
    /\ LET s == state_loading(data)
       IN  /\ q_current_pos' = s[1]
           /\ x_current_pos' = s[2]
           /\ context_current' = s[3]
           /\ q_pos_memory' = WriteRow(q_pos_memory, sampling_step, s[1])
           /\ x_pos_memory' = WriteRow(x_pos_memory, sampling_step, s[2])
           /\ abs_dis_memory' = WriteRow(abs_dis_memory, sampling_step,
                                         Abs(s[2] - TARGET_POS))
    /\ writes' = CountWrite(writes,
                   {"q_pos_memory", "x_pos_memory", "abs_dis_memory"},
                   sampling_step)
    /\ events' = Append(events, "state_loading")
    /\ pc' = "sample"
    /\ UNCHANGED <<cvars, tvars>>
    /\ UNCHANGED <<panda_step, sampling_step, data, inputs_normalized_iters,
                   inputs_final, diffusion_predicted_states, cost,
                   ctl_memory, cost_memory, single_time_set, x_last_pos,
                   reported, disk, final_reads>>

\* lines 118-123: diffusion_sampling with the context, and its duration
Sample ==
    /\ pc = "sample"
    /\ \E chain \in Chains : inputs_normalized_iters' = chain
    /\ \E single_t \in Durations :
          single_time_set' = WriteRow(single_time_set, sampling_step, single_t)
    /\ writes' = CountWrite(writes, {"single_time_set"}, sampling_step)
    /\ events' = Append(events, "diffusion_sampling")
    /\ pc' = "unnormalize"
    /\ UNCHANGED <<cvars, tvars>>
    /\ UNCHANGED <<panda_step, sampling_step, data, q_current_pos,
                   x_current_pos, context_current, inputs_final,
                   diffusion_predicted_states, cost, x_pos_memory,
                   q_pos_memory, ctl_memory, abs_dis_memory, cost_memory,
                   x_last_pos, reported, disk, final_reads>>

\* lines 126-127: inputs_final = unnormalize_states(chain)[-1]
Unnormalize ==
    /\ pc = "unnormalize"
    /\ inputs_final' = Last(unnormalize_states(inputs_normalized_iters))
    /\ pc' = "rollout"
    /\ UNCHANGED <<cvars, tvars>>
    /\ UNCHANGED <<panda_step, sampling_step, data, q_current_pos,
                   x_current_pos, context_current, inputs_normalized_iters,
                   diffusion_predicted_states, cost, x_pos_memory,
                   q_pos_memory, ctl_memory, abs_dis_memory, cost_memory,
                   single_time_set, x_last_pos, reported, disk, events,
                   writes, final_reads>>

\* the rollout stepping the main simulator's data instead of its own
Rollout_on_main_data ==
    /\ pc = "rollout"
    /\ diffusion_predicted_states' =
           diffusion_horizon_states(x_current_pos, inputs_final, q_current_pos)
    /\ data' = rollout_data(mj_step(data), inputs_final, HORIZON)
    /\ events' = Append(events, "diffusion_horizon_states")
    /\ pc' = "cost"
    /\ UNCHANGED <<cvars, tvars>>
    /\ UNCHANGED <<panda_step, sampling_step, q_current_pos,
                   x_current_pos, context_current, inputs_normalized_iters,
                   inputs_final, cost, x_pos_memory, q_pos_memory,
                   ctl_memory, abs_dis_memory, cost_memory, single_time_set,
                   x_last_pos, reported, disk, writes, final_reads>>

\* line 136: the forward rollout of the sampled trajectory
Rollout ==
    /\ pc = "rollout"
    /\ diffusion_predicted_states' =
           diffusion_horizon_states(x_current_pos, inputs_final, q_current_pos)
    /\ events' = Append(events, "diffusion_horizon_states")
    /\ pc' = "cost"
    /\ UNCHANGED <<cvars, tvars>>
    /\ UNCHANGED <<panda_step, sampling_step, data, q_current_pos,
                   x_current_pos, context_current, inputs_normalized_iters,
                   inputs_final, cost, x_pos_memory, q_pos_memory,
                   ctl_memory, abs_dis_memory, cost_memory, single_time_set,
                   x_last_pos, reported, disk, writes, final_reads>>

\* lines 137-138: the cost of the rollout
Cost ==
    /\ pc = "cost"
    /\ LET c == mpc_cost(diffusion_predicted_states, inputs_final, Q, R, P)
       IN  /\ cost' = c
           /\ cost_memory' = WriteRow(cost_memory, sampling_step, c)
    /\ writes' = CountWrite(writes, {"cost_memory"}, sampling_step)
    /\ events' = Append(events, "mpc_cost")
    /\ pc' = "apply"
    /\ UNCHANGED <<cvars, tvars>>
    /\ UNCHANGED <<panda_step, sampling_step, data, q_current_pos,
                   x_current_pos, context_current, inputs_normalized_iters,
                   inputs_final, diffusion_predicted_states, x_pos_memory,
                   q_pos_memory, ctl_memory, abs_dis_memory, single_time_set,
                   x_last_pos, reported, disk, final_reads>>

\* a wrong time index of the trajectory: inputs_final[0,1,:]
applied_input_second(inputs) == inputs[2]

\* line 143: applied_input_tensor = inputs_final[0,0,:]
applied_input(inputs) == inputs[1]

\* the control tick without the increment of sampling_step
ApplyInput_no_increment ==
    /\ pc = "apply"
    /\ LET applied_input_array == applied_input(inputs_final)
       IN  /\ ctl_memory' = WriteRow(ctl_memory, sampling_step,
                                     applied_input_array)
           /\ data' = [data EXCEPT !.ctrl = applied_input_array]
    /\ writes' = CountWrite(writes, {"ctl_memory"}, sampling_step)
    /\ events' = Append(events, "ctrl_write")
    /\ UNCHANGED sampling_step
    /\ pc' = "step"
    /\ UNCHANGED <<cvars, tvars>>
    /\ UNCHANGED <<panda_step, q_current_pos, x_current_pos, context_current,
                   inputs_normalized_iters, inputs_final,
                   diffusion_predicted_states, cost, x_pos_memory,
                   q_pos_memory, abs_dis_memory, cost_memory, single_time_set,
                   x_last_pos, reported, disk, final_reads>>

\* lines 143-157: the first control goes to the actuators
ApplyInput ==
    /\ pc = "apply"
    /\ LET applied_input_array == applied_input(inputs_final)
       IN  /\ ctl_memory' = WriteRow(ctl_memory, sampling_step,
                                     applied_input_array)
           /\ data' = [data EXCEPT !.ctrl = applied_input_array]
    /\ writes' = CountWrite(writes, {"ctl_memory"}, sampling_step)
    /\ events' = Append(events, "ctrl_write")
    /\ sampling_step' = sampling_step + 1
    /\ pc' = "step"
    /\ UNCHANGED <<cvars, tvars>>
    /\ UNCHANGED <<panda_step, q_current_pos, x_current_pos, context_current,
                   inputs_normalized_iters, inputs_final,
                   diffusion_predicted_states, cost, x_pos_memory,
                   q_pos_memory, abs_dis_memory, cost_memory, single_time_set,
                   x_last_pos, reported, disk, final_reads>>

\* line 159-160: mujoco.mj_step(panda, data) and the last-iteration test
PhysicsStep ==
    /\ pc = "step"
    /\ data' = mj_step(data)
    /\ events' = Append(events, "mj_step")
    /\ IF panda_step = NumIterations - 1
       THEN /\ pc' = "final_read"
            /\ UNCHANGED panda_step
       ELSE /\ pc' = "loop"
            /\ panda_step' = panda_step + 1
    /\ UNCHANGED <<cvars, tvars>>
    /\ UNCHANGED <<sampling_step, q_current_pos, x_current_pos,
                   context_current, inputs_normalized_iters, inputs_final,
                   diffusion_predicted_states, cost, x_pos_memory,
                   q_pos_memory, ctl_memory, abs_dis_memory, cost_memory,
                   single_time_set, x_last_pos, reported, disk, writes,
                   final_reads>>

\* lines 161-162: the final state read, then the loop variable runs out
FinalRead ==
    /\ pc = "final_read"
    /\ x_last_pos' = state_loading(data)[2]
    /\ final_reads' = final_reads + 1
    /\ events' = Append(events, "final_state_loading")
    /\ panda_step' = panda_step + 1
    /\ pc' = "loop"
    /\ UNCHANGED <<cvars, tvars>>
    /\ UNCHANGED <<sampling_step, data, q_current_pos, x_current_pos,
                   context_current, inputs_normalized_iters, inputs_final,
                   diffusion_predicted_states, cost, x_pos_memory,
                   q_pos_memory, ctl_memory, abs_dis_memory, cost_memory,
                   single_time_set, reported, disk, writes>>

\* line 169: print(f'fianl abs distance -- {abs_dis_memory[-1,0]}')
Report ==
    /\ pc = "report"
    /\ reported' = abs_dis_memory[SAMPLING_STEPS - 1]
    /\ pc' = "save"
    /\ UNCHANGED <<cvars, tvars>>
    /\ UNCHANGED <<panda_step, sampling_step, data, q_current_pos,
                   x_current_pos, context_current, inputs_normalized_iters,
                   inputs_final, diffusion_predicted_states, cost,
                   x_pos_memory, q_pos_memory, ctl_memory, abs_dis_memory,
                   cost_memory, single_time_set, x_last_pos, disk, events,
                   writes, final_reads>>

\* lines 182-201: the np.save calls
SaveResults ==
    /\ pc = "save"
    /\ \E delta_t_problem_solving \in Durations :
          LET cost_sum == np_sum(cost_memory)
          IN  disk' = [x_trag       |-> np_save(<<SAMPLING_STEPS>>,
                                                x_pos_memory),
                       solving_time |-> np_save(<<>>,
                                                delta_t_problem_solving),
                       single_time  |-> np_save(<<SAMPLING_STEPS>>,
                                                single_time_set),
                       cost_file    |-> np_save(<<>>, cost_sum)]
    /\ pc' = "done"
    /\ UNCHANGED <<cvars, tvars>>
    /\ UNCHANGED <<panda_step, sampling_step, data, q_current_pos,
                   x_current_pos, context_current, inputs_normalized_iters,
                   inputs_final, diffusion_predicted_states, cost,
                   x_pos_memory, q_pos_memory, ctl_memory, abs_dis_memory,
                   cost_memory, single_time_set, x_last_pos, reported,
                   events, writes, final_reads>>

NextInfer ==
    \/ LoopHead
    \/ LoadState
    \/ Sample
    \/ Unnormalize
    \/ Rollout
    \/ Cost
    \/ ApplyInput
    \/ PhysicsStep
    \/ FinalRead
    \/ Report
    \/ SaveResults

\* ------------------------------------------------------------------------
\* mpc_cost called on arbitrary rollouts, controls and weights
\* ------------------------------------------------------------------------
\* number of controls of the rollouts the call is tried on
CostHorizon == 3

\* predicted positions and weights the call is tried on
PosVals == {0, 2, 3}
CtrlVals == {0, 1}
QVals == {1, 2}
RVals == {1, 3}
PVals == {1, 5}

CostIdle ==
    /\ cpc = "idle"
    /\ c_states = <<>>
    /\ c_controls = <<>>
    /\ c_Q = 0
    /\ c_R = 0
    /\ c_P = 0
    /\ c_cost = 0

CostInit ==
    /\ cpc = "call"
    /\ c_states \in [1 .. (CostHorizon + 1) -> PosVals]
    /\ c_controls \in [1 .. CostHorizon -> CtrlVals]
    /\ c_Q \in QVals
    /\ c_R \in RVals
    /\ c_P \in PVals
    /\ c_cost = 0

\* cost = mpc_cost(predicted_states, predicted_controls, Q, R, P)
CostCall ==
    /\ cpc = "call"
    /\ c_cost' = mpc_cost(c_states, c_controls, c_Q, c_R, c_P)
    /\ cpc' = "returned"
    /\ UNCHANGED <<c_states, c_controls, c_Q, c_R, c_P>>
    /\ UNCHANGED <<ivars, tvars>>

NextCost == CostCall

\* ------------------------------------------------------------------------
\* NN_cart_pole_train.py: sizes (scaled down from the source's values)
\* ------------------------------------------------------------------------
\* source: epochs = 300
epochs == 2
\* len(train_dataloader)
NumTrainBatches == 3
\* largest len(val_dataloader) considered
MaxValBatches == 4
\* source: steps_til_summary = 2000
steps_til_summary == 3
\* source: steps_til_checkpoint = 90000
steps_til_checkpoint == 2
\* source: update_ema_every = 10
update_ema_every == 2
\* source: step_start_ema = 1000
step_start_ema == 2
\* source: steps_per_validation = 10
steps_per_validation == 2

batch_size == 512
output_size == 8
\* ema_decay as a fraction (source: 0.995)
ema_decay_num == 3
ema_decay_den == 4
use_ema == TRUE
stop_training == FALSE
max_steps == "None"

\* values of the loss of a training batch, which also stand for its gradient
LossVals == {1, 2}

\* value of the loss of a validation batch
ValLossVals == {3}

\* a data loader yields full batches except possibly its last batch
LastBatchSizes == {batch_size, batch_size - 1}

Loader(n, last) == [i \in 1 .. n |-> IF i < n THEN batch_size ELSE last]

TrainLoaders == {Loader(NumTrainBatches, last) : last \in LastBatchSizes}

ValLoaders ==
    {[none |-> TRUE, sizes |-> <<>>]}
    \cup {[none |-> FALSE, sizes |-> Loader(n, last)] :
             n \in 1 .. MaxValBatches, last \in LastBatchSizes}

\* ------------------------------------------------------------------------
\* EMA: parameters are fractions <<numerator, denominator>>
\* ------------------------------------------------------------------------
RECURSIVE GCD(_, _)
GCD(a, b) == IF b = 0 THEN a ELSE GCD(b, a % b)

Frac(n, d) == LET g == GCD(Abs(n), d) IN <<n \div g, d \div g>>

\* a parameter without data
NoneParam == <<0, 0>>

\* EMA.update_average(old, new)
update_average(old, new) ==
    IF old = NoneParam THEN new
    ELSE Frac(old[1] * ema_decay_num * new[2]
              + (ema_decay_den - ema_decay_num) * new[1] * old[2],
              old[2] * ema_decay_den * new[2])

\* EMA.update_model_average(ema_model, current_model), one parameter
update_model_average(ema, current) == update_average(ema, Frac(current, 1))

\* ema_model.load_state_dict(model.state_dict())
load_state_dict(current) == Frac(current, 1)

\* the update without the reset of lines 484-486
ema_step_no_reset(ema, current, steps) ==
    update_model_average(ema, current)

\* lines 484-487 and 520-523: reset before step_start_ema, then the update
ema_step(ema, current, steps) ==
    update_model_average(
        IF steps < step_start_ema THEN load_state_dict(current) ELSE ema,
        current)

\* an EMA update on every training step
ema_due_always(steps) == steps % 1 = 0

\* line 482
ema_due(steps) == steps % update_ema_every = 0

\* line 367
summary_due(steps) == steps % steps_til_summary = 0

\* the checkpoint test on the step count before the increment
checkpoint_due_before(steps) == (steps - 1) % steps_til_checkpoint = 0

\* line 498
checkpoint_due(steps) == steps % steps_til_checkpoint = 0

\* AMPCNet.forward: x.view(512, 8, 1) needs 512*8*1 elements
view_ok(n) == n * output_size = 512 * 8 * 1

\* save_nn_models_to_disk (and save_losses_to_disk when losses are given)
save_nn_models_to_disk(ckpts, m, ema, ep, total_steps, losses) ==
    Append(ckpts, [epoch |-> ep, total_steps |-> total_steps,
                   model |-> m, ema_model |-> ema, losses |-> losses])

\* the progress bar before line 326 creates it
NoBar == [total |-> 0, n |-> 0]

\* tqdm(total=...)
tqdm(total) == [total |-> total, n |-> 0]

\* pbar.update(k)
pbar_update(bar, k) == [bar EXCEPT !.n = @ + k]

\* ------------------------------------------------------------------------
\* The training script: state before line 323
\* ------------------------------------------------------------------------
TrainInit ==
    /\ tpc = "initial_save"
    /\ train_dataloader \in TrainLoaders
    /\ val_dataloader \in ValLoaders
    /\ epoch = -1
    /\ step = -1
    /\ train_steps_current = 0
    /\ model = 0
    /\ ema_model = Frac(0, 1)
    /\ grad = 0
    /\ loss = <<>>
    /\ single_loss = 0
    /\ train_loss_batch = 0
    /\ step_val = -1
    /\ val_losses = <<>>
    /\ total_val_loss = 0
    /\ train_losses_l = <<>>
    /\ validation_losses_l = <<>>
    /\ checkpoints = <<>>
    /\ tevents = <<>>
    /\ pbar = NoBar

TrainIdle ==
    /\ tpc = "idle"
    /\ train_dataloader = <<>>
    /\ val_dataloader = [none |-> TRUE, sizes |-> <<>>]
    /\ epoch = -1
    /\ step = -1
    /\ train_steps_current = 0
    /\ model = 0
    /\ ema_model = Frac(0, 1)
    /\ grad = 0
    /\ loss = <<>>
    /\ single_loss = 0
    /\ train_loss_batch = 0
    /\ step_val = -1
    /\ val_losses = <<>>
    /\ total_val_loss = 0
    /\ train_losses_l = <<>>
    /\ validation_losses_l = <<>>
    /\ checkpoints = <<>>
    /\ tevents = <<>>
    /\ pbar = NoBar

\* lines 323-328: save models before training, create the progress bar
InitialSave ==
    /\ tpc = "initial_save"
    /\ checkpoints' = save_nn_models_to_disk(checkpoints, model, ema_model,
                                             0, 0, <<>>)
    /\ pbar' = tqdm((Len(train_dataloader) - 1) * epochs)
    /\ tpc' = "epoch_head"
    /\ UNCHANGED <<train_dataloader, val_dataloader, epoch, step,
                   train_steps_current, model, ema_model, grad, loss,
                   single_loss, train_loss_batch, step_val, val_losses,
                   total_val_loss, train_losses_l, validation_losses_l,
                   tevents>>
    /\ UNCHANGED <<ivars, cvars>>

\* line 329: for epoch in range(epochs)
EpochHead ==
    /\ tpc = "epoch_head"
    /\ IF epoch + 1 < epochs
       THEN /\ epoch' = epoch + 1
            /\ step' = -1
            /\ tpc' = "batch_head"
       ELSE /\ UNCHANGED <<epoch, step>>
            /\ tpc' = "final_ema"
    /\ UNCHANGED <<train_dataloader, val_dataloader, train_steps_current,
                   model, ema_model, grad, loss, single_loss,
                   train_loss_batch, step_val, val_losses, total_val_loss,
                   train_losses_l, validation_losses_l, checkpoints, tevents>>
    /\ UNCHANGED <<ivars, cvars, pbar>>

\* the batch loop without the break of lines 333-334
BatchHead_keep_last ==
    /\ tpc = "batch_head"
    /\ IF step + 1 < Len(train_dataloader)
       THEN /\ step' = step + 1
            /\ tpc' = "forward"
       ELSE /\ UNCHANGED step
            /\ tpc' = "epoch_end"
    /\ UNCHANGED <<train_dataloader, val_dataloader, epoch,
                   train_steps_current, model, ema_model, grad, loss,
                   single_loss, train_loss_batch, step_val, val_losses,
                   total_val_loss, train_losses_l, validation_losses_l,
                   checkpoints, tevents>>
    /\ UNCHANGED <<ivars, cvars, pbar>>

\* lines 331-334: the next batch of the epoch; the last batch is dropped
BatchHead ==
    /\ tpc = "batch_head"
    /\ IF step + 1 < Len(train_dataloader)
       THEN /\ step' = step + 1
            /\ tpc' = IF step + 1 = Len(train_dataloader) - 1
                      THEN "epoch_end" ELSE "forward"
       ELSE /\ UNCHANGED step
            /\ tpc' = "epoch_end"
    /\ UNCHANGED <<train_dataloader, val_dataloader, epoch,
                   train_steps_current, model, ema_model, grad, loss,
                   single_loss, train_loss_batch, step_val, val_losses,
                   total_val_loss, train_losses_l, validation_losses_l,
                   checkpoints, tevents>>
    /\ UNCHANGED <<ivars, cvars, pbar>>

\* lines 339-362: forward pass and loss of the step's batch
Forward ==
    /\ tpc = "forward"
    /\ IF view_ok(train_dataloader[step + 1])
       THEN \E l \in LossVals :
                /\ loss' = <<l>>
                /\ single_loss' = l
                /\ train_loss_batch' = 0 + l
                /\ tevents' = <<"forward_loss">>
                /\ tpc' = "summary"
       ELSE /\ UNCHANGED <<loss, single_loss, train_loss_batch>>
            /\ tevents' = <<"forward_error">>
            /\ tpc' = "crashed"
    /\ UNCHANGED <<train_dataloader, val_dataloader, epoch, step,
                   train_steps_current, model, ema_model, grad, step_val,
                   val_losses, total_val_loss, train_losses_l,
                   validation_losses_l, checkpoints>>
    /\ UNCHANGED <<ivars, cvars, pbar>>

\* lines 367-394: the summary test, the training summary and the
\* validation-loader test
Summary ==
    /\ tpc = "summary"
    /\ IF summary_due(train_steps_current)
       THEN /\ train_losses_l' = Append(train_losses_l, train_steps_current)
            /\ IF ~ val_dataloader.none
               THEN /\ val_losses' = <<>>
                    /\ total_val_loss' = 0
                    /\ step_val' = -1
                    /\ tevents' = Append(tevents, "validation")
                    /\ tpc' = "val_loop"
               ELSE /\ UNCHANGED <<val_losses, total_val_loss, step_val,
                                   tevents>>
                    /\ tpc' = "zero_grad"
       ELSE /\ UNCHANGED <<train_losses_l, val_losses, total_val_loss,
                           step_val, tevents>>
            /\ tpc' = "zero_grad"
    /\ UNCHANGED <<train_dataloader, val_dataloader, epoch, step,
                   train_steps_current, model, ema_model, grad, loss,
                   single_loss, train_loss_batch, validation_losses_l,
                   checkpoints>>
    /\ UNCHANGED <<ivars, cvars, pbar>>

\* lines 399-423: one validation batch, and the break after it
ValBatch ==
    /\ tpc = "val_loop"
    /\ IF step_val + 1 < Len(val_dataloader.sizes)
       THEN /\ step_val' = step_val + 1
            /\ IF view_ok(val_dataloader.sizes[step_val + 2])
               THEN \E loss_val \in ValLossVals :
                        /\ single_loss' = loss_val
                        /\ val_losses' = Append(val_losses, loss_val)
                        /\ total_val_loss' = total_val_loss + loss_val
                        /\ tpc' = IF step_val + 1 = steps_per_validation
                                  THEN "val_done" ELSE "val_loop"
                        /\ UNCHANGED tevents
               ELSE /\ UNCHANGED <<single_loss, val_losses, total_val_loss>>
                    /\ tevents' = Append(tevents, "forward_error")
                    /\ tpc' = "crashed"
       ELSE /\ UNCHANGED <<step_val, single_loss, val_losses,
                           total_val_loss, tevents>>
            /\ tpc' = "val_done"
    /\ UNCHANGED <<train_dataloader, val_dataloader, epoch, step,
                   train_steps_current, model, ema_model, grad, loss,
                   train_loss_batch, train_losses_l, validation_losses_l,
                   checkpoints>>
    /\ UNCHANGED <<ivars, cvars, pbar>>

\* lines 425-450: the mean validation loss is logged; the loop over
\* val_losses.items() rebinds the name loss
ValDone ==
    /\ tpc = "val_done"
    /\ loss' = IF val_losses # <<>> THEN val_losses ELSE loss
    /\ validation_losses_l' =
           Append(validation_losses_l,
                  [step |-> train_steps_current,
                   mean |-> IF val_losses # <<>>
                            THEN Frac(total_val_loss, Len(val_losses))
                            ELSE NoneParam])
    /\ tpc' = "zero_grad"
    /\ UNCHANGED <<train_dataloader, val_dataloader, epoch, step,
                   train_steps_current, model, ema_model, grad, single_loss,
                   train_loss_batch, step_val, val_losses, total_val_loss,
                   train_losses_l, checkpoints, tevents>>
    /\ UNCHANGED <<ivars, cvars, pbar>>

\* zero_grad() with the backward pass left out
ZeroGrad_no_backward ==
    /\ tpc = "zero_grad"
    /\ grad' = 0
    /\ tevents' = Append(tevents, "zero_grad")
    /\ tpc' = "optimizer_step"
    /\ UNCHANGED <<train_dataloader, val_dataloader, epoch, step,
                   train_steps_current, model, ema_model, loss, single_loss,
                   train_loss_batch, step_val, val_losses, total_val_loss,
                   train_losses_l, validation_losses_l, checkpoints>>
    /\ UNCHANGED <<ivars, cvars, pbar>>

\* lines 463-464: optim.zero_grad()
ZeroGrad ==
    /\ tpc = "zero_grad"
    /\ grad' = 0
    /\ tevents' = Append(tevents, "zero_grad")
    /\ tpc' = "backward"
    /\ UNCHANGED <<train_dataloader, val_dataloader, epoch, step,
                   train_steps_current, model, ema_model, loss, single_loss,
                   train_loss_batch, step_val, val_losses, total_val_loss,
                   train_losses_l, validation_losses_l, checkpoints>>
    /\ UNCHANGED <<ivars, cvars, pbar>>

\* the backward pass started from the name single_loss
Backward_single_loss ==
    /\ tpc = "backward"
    /\ grad' = grad + single_loss
    /\ tevents' = Append(tevents, "backward")
    /\ tpc' = "optimizer_step"
    /\ UNCHANGED <<train_dataloader, val_dataloader, epoch, step,
                   train_steps_current, model, ema_model, loss, single_loss,
                   train_loss_batch, step_val, val_losses, total_val_loss,
                   train_losses_l, validation_losses_l, checkpoints>>
    /\ UNCHANGED <<ivars, cvars, pbar>>

\* line 466: scaler.scale(train_loss_batch).backward()
Backward ==
    /\ tpc = "backward"
    /\ grad' = grad + train_loss_batch
    /\ tevents' = Append(tevents, "backward")
    /\ tpc' = "optimizer_step"
    /\ UNCHANGED <<train_dataloader, val_dataloader, epoch, step,
                   train_steps_current, model, ema_model, loss, single_loss,
                   train_loss_batch, step_val, val_losses, total_val_loss,
                   train_losses_l, validation_losses_l, checkpoints>>
    /\ UNCHANGED <<ivars, cvars, pbar>>

\* lines 468-479: the optimizer step (clip_grad is False)
OptimizerStep ==
    /\ tpc = "optimizer_step"
    /\ model' = model - grad
    /\ tevents' = Append(tevents, "optimizer_step")
    /\ tpc' = "ema"
    /\ UNCHANGED <<train_dataloader, val_dataloader, epoch, step,
                   train_steps_current, ema_model, grad, loss, single_loss,
                   train_loss_batch, step_val, val_losses, total_val_loss,
                   train_losses_l, validation_losses_l, checkpoints>>
    /\ UNCHANGED <<ivars, cvars, pbar>>

\* lines 481-487: the EMA update, when due
EmaUpdate ==
    /\ tpc = "ema"
    /\ IF use_ema /\ ema_due(train_steps_current)
       THEN /\ ema_model' = ema_step(ema_model, model, train_steps_current)
            /\ tevents' = Append(tevents, "ema_update")
       ELSE UNCHANGED <<ema_model, tevents>>
    /\ tpc' = "increment"
    /\ UNCHANGED <<train_dataloader, val_dataloader, epoch, step,
                   train_steps_current, model, grad, loss, single_loss,
                   train_loss_batch, step_val, val_losses, total_val_loss,
                   train_losses_l, validation_losses_l, checkpoints>>
    /\ UNCHANGED <<ivars, cvars, pbar>>

\* lines 495-496: pbar.update(1); train_steps_current += 1
Increment ==
    /\ tpc = "increment"
    /\ pbar' = pbar_update(pbar, 1)
    /\ train_steps_current' = train_steps_current + 1
    /\ tevents' = Append(tevents, "increment")
    /\ tpc' = "checkpoint"
    /\ UNCHANGED <<train_dataloader, val_dataloader, epoch, step, model,
                   ema_model, grad, loss, single_loss, train_loss_batch,
                   step_val, val_losses, total_val_loss, train_losses_l,
                   validation_losses_l, checkpoints>>
    /\ UNCHANGED <<ivars, cvars>>

\* lines 498-509: the periodic checkpoint
Checkpoint ==
    /\ tpc = "checkpoint"
    /\ IF checkpoint_due(train_steps_current)
       THEN checkpoints' =
                save_nn_models_to_disk(checkpoints, model, ema_model, epoch,
                                       train_steps_current,
                                       <<train_losses_l, validation_losses_l>>)
       ELSE UNCHANGED checkpoints
    /\ tpc' = "stop_test"
    /\ UNCHANGED <<train_dataloader, val_dataloader, epoch, step,
                   train_steps_current, model, ema_model, grad, loss,
                   single_loss, train_loss_batch, step_val, val_losses,
                   total_val_loss, train_losses_l, validation_losses_l,
                   tevents>>
    /\ UNCHANGED <<ivars, cvars, pbar>>

\* lines 511-512: the break of the batch loop
StopTest ==
    /\ tpc = "stop_test"
    /\ tpc' = IF stop_training
                 \/ (max_steps # "None" /\ train_steps_current = max_steps)
              THEN "epoch_end" ELSE "batch_head"
    /\ UNCHANGED <<train_dataloader, val_dataloader, epoch, step,
                   train_steps_current, model, ema_model, grad, loss,
                   single_loss, train_loss_batch, step_val, val_losses,
                   total_val_loss, train_losses_l, validation_losses_l,
                   checkpoints, tevents>>
    /\ UNCHANGED <<ivars, cvars, pbar>>

\* lines 514-515: the break of the epoch loop
EpochEnd ==
    /\ tpc = "epoch_end"
    /\ tpc' = IF max_steps # "None" /\ train_steps_current = max_steps
              THEN "final_ema" ELSE "epoch_head"
    /\ UNCHANGED <<train_dataloader, val_dataloader, epoch, step,
                   train_steps_current, model, ema_model, grad, loss,
                   single_loss, train_loss_batch, step_val, val_losses,
                   total_val_loss, train_losses_l, validation_losses_l,
                   checkpoints, tevents>>
    /\ UNCHANGED <<ivars, cvars, pbar>>

\* lines 518-523: the EMA update at the end of training
FinalEma ==
    /\ tpc = "final_ema"
    /\ IF use_ema
       THEN ema_model' = ema_step(ema_model, model, train_steps_current)
       ELSE UNCHANGED ema_model
    /\ tevents' = <<"final_ema_update">>
    /\ tpc' = "final_save"
    /\ UNCHANGED <<train_dataloader, val_dataloader, epoch, step,
                   train_steps_current, model, grad, loss, single_loss,
                   train_loss_batch, step_val, val_losses, total_val_loss,
                   train_losses_l, validation_losses_l, checkpoints>>
    /\ UNCHANGED <<ivars, cvars, pbar>>

\* lines 526-528: the save at the end of training
FinalSave ==
    /\ tpc = "final_save"
    /\ checkpoints' =
           save_nn_models_to_disk(checkpoints, model, ema_model, epoch,
                                  train_steps_current,
                                  <<train_losses_l, validation_losses_l>>)
    /\ tevents' = Append(tevents, "final_save")
    /\ tpc' = "finished"
    /\ UNCHANGED <<train_dataloader, val_dataloader, epoch, step,
                   train_steps_current, model, ema_model, grad, loss,
                   single_loss, train_loss_batch, step_val, val_losses,
                   total_val_loss, train_losses_l, validation_losses_l>>
    /\ UNCHANGED <<ivars, cvars, pbar>>

NextTrain ==
    \/ InitialSave
    \/ EpochHead
    \/ BatchHead
    \/ Forward
    \/ Summary
    \/ ValBatch
    \/ ValDone
    \/ ZeroGrad
    \/ Backward
    \/ OptimizerStep
    \/ EmaUpdate
    \/ Increment
    \/ Checkpoint
    \/ StopTest
    \/ EpochEnd
    \/ FinalEma
    \/ FinalSave

\* ------------------------------------------------------------------------
\* Specifications
\* ------------------------------------------------------------------------
InitInfer == InferInit /\ CostIdle /\ TrainIdle

SpecInfer == InitInfer /\ [][NextInfer]_vars

InitCost == InferInit /\ CostInit /\ TrainIdle

SpecCost == InitCost /\ [][NextCost]_vars

InitTrain == InferInit /\ CostIdle /\ TrainInit

SpecTrain == InitTrain /\ [][NextTrain]_vars

\* ------------------------------------------------------------------------
\* Properties of the inference loop
\* ------------------------------------------------------------------------
Range(f) == {f[x] : x \in DOMAIN f}

IsPrefix(s, t) == Len(s) <= Len(t) /\ \A i \in 1 .. Len(s) : s[i] = t[i]

\* the calls of a loop iteration that is a control tick, in program order
TickEvents == <<"state_loading", "diffusion_sampling",
                "diffusion_horizon_states", "mpc_cost", "ctrl_write",
                "mj_step", "final_state_loading">>

\* the calls of a loop iteration that is not a control tick
HoldEvents == <<"mj_step", "final_state_loading">>

TickStages == {"sample", "unnormalize", "rollout", "cost", "apply"}

\* C1: whenever the actuators of the main simulator are written (or change),
\* the value written is element [0,0,:] of the last entry of the
\* unnormalized chain that was sampled in the same loop iteration.
C1_FirstControlApplied ==
    [][(events' = Append(events, "ctrl_write") \/ data'.ctrl # data.ctrl)
         => /\ events' = Append(events, "ctrl_write")
            /\ "diffusion_sampling" \in Range(events)
            /\ LET chain == inputs_normalized_iters
                   last  == chain[Len(chain)]
               IN  data'.ctrl = (last[1] + 1) \div 2]_vars

\* C1 witness: a control was applied whose value differs from the next time
\* index of the trajectory and from the first entry of the chain.
C1_Witness ==
    /\ pc = "step"
    /\ events # <<>> /\ events[Len(events)] = "ctrl_write"
    /\ data.ctrl = 1
    /\ inputs_final[1] = 1
    /\ inputs_final[HORIZON] = 0
    /\ inputs_normalized_iters[1][1] = -1

C2_Inv ==
    /\ panda_step \in 0 .. (SAMPLING_STEPS * CONTROL_RATE)
    \* one physics step per iteration (plus the one before the loop)
    /\ data.time = 1 + panda_step + (IF pc = "final_read" THEN 1 ELSE 0)
    \* a control tick exactly on the multiples of CONTROL_RATE
    /\ (pc \in TickStages \cup {"load"} => panda_step % CONTROL_RATE = 0)
    /\ (pc \in {"step", "final_read"} =>
          (("ctrl_write" \in Range(events))
             <=> (panda_step % CONTROL_RATE = 0)))
    /\ (pc = "loop" =>
          sampling_step = (panda_step + CONTROL_RATE - 1) \div CONTROL_RATE)
    \* the final read: once, after the last physics step
    /\ final_reads = (IF panda_step = SAMPLING_STEPS * CONTROL_RATE
                      THEN 1 ELSE 0)
    /\ (final_reads = 1 =>
          /\ data.time = 1 + SAMPLING_STEPS * CONTROL_RATE
          /\ x_last_pos = data.xpos)
    /\ (pc \in {"report", "save", "done"} =>
          /\ panda_step = SAMPLING_STEPS * CONTROL_RATE
          /\ sampling_step = SAMPLING_STEPS
          /\ final_reads = 1)

\* position of a program point within one loop iteration, counted backwards
StageRank(p) ==
    CASE p = "loop" -> 9 [] p = "load" -> 8 [] p = "sample" -> 7
      [] p = "unnormalize" -> 6 [] p = "rollout" -> 5 [] p = "cost" -> 4
      [] p = "apply" -> 3 [] p = "step" -> 2 [] p = "final_read" -> 1

\* number of statements main() can still execute, at most
C2_Rank ==
    CASE pc = "done" -> 0
      [] pc = "save" -> 1
      [] pc = "report" -> 2
      [] OTHER -> 3 + 10 * (SAMPLING_STEPS * CONTROL_RATE - panda_step)
                    + StageRank(pc)

\* C2: main() terminates (until it has returned a statement can always run,
\* and every statement decreases a bounded rank), after
\* SAMPLING_STEPS*CONTROL_RATE iterations of one physics step each; control
\* ticks are exactly the iterations whose index is a multiple of
\* CONTROL_RATE (SAMPLING_STEPS of them); the final state read happens once,
\* after the last physics step.
C2_FixedIterationLoop ==
    /\ [](C2_Inv /\ C2_Rank >= 0 /\ (pc # "done" => ENABLED NextInfer))
    /\ [][C2_Rank' < C2_Rank]_vars

\* C2 witness: main() has returned after all iterations and the final read.
C2_Witness ==
    /\ pc = "done"
    /\ panda_step = SAMPLING_STEPS * CONTROL_RATE
    /\ data.time = 1 + SAMPLING_STEPS * CONTROL_RATE
    /\ sampling_step = SAMPLING_STEPS
    /\ final_reads = 1
    /\ data.qvel > 0

\* C3: in a control tick the calls are, in this order, state_loading,
\* diffusion_sampling, diffusion_horizon_states, mpc_cost, the write of the
\* control; the main simulator is not stepped before the write: the context
\* that was read is still the simulator's state and its time has not moved.
C3_TickOrder ==
    /\ IsPrefix(events, TickEvents) \/ IsPrefix(events, HoldEvents)
    /\ (pc \in TickStages =>
          /\ Len(context_current) = 4
          /\ context_current[1] = data.qpos
          /\ context_current[2] = data.qvel
          /\ context_current[3] = data.xpos
          /\ data.time = 1 + panda_step
          /\ ~ ("mj_step" \in Range(events)))
    /\ (pc = "step" /\ panda_step % CONTROL_RATE = 0 =>
          /\ events = SubSeq(TickEvents, 1, 5)
          /\ data.time = 1 + panda_step)

\* C3 witness: a whole control tick has run and the simulator has then been
\* stepped with a non-zero control.
C3_Witness ==
    /\ pc = "loop"
    /\ events = SubSeq(TickEvents, 1, 6)
    /\ data.ctrl = 1
    /\ cost > 0

RECURSIVE SumTo(_, _)
SumTo(f, n) == IF n < 0 THEN 0 ELSE f[n] + SumTo(f, n - 1)

\* C4 as stated: both the position series and the cost series are on disk,
\* one entry per control tick each.
C4_BothSeriesSaved ==
    pc = "done" =>
        /\ disk.x_trag.saved
        /\ disk.x_trag.shape = <<SAMPLING_STEPS>>
        /\ disk.x_trag.value = x_pos_memory
        /\ disk.cost_file.saved
        /\ disk.cost_file.shape = <<SAMPLING_STEPS>>
        /\ disk.cost_file.value = cost_memory

\* C4 amended: after the loop main() writes the series of end-effector
\* positions (one entry per control tick) and the sum of the per-tick costs,
\* a single number; nothing is written before the loop has finished.
C4_SeriesAndCostSum ==
    /\ (pc = "done" =>
          /\ disk.x_trag.saved
          /\ disk.x_trag.shape = <<SAMPLING_STEPS>>
          /\ disk.x_trag.value = x_pos_memory
          /\ \A r \in 0 .. (SAMPLING_STEPS - 1) :
                writes["x_pos_memory"][r] = 1 /\ writes["cost_memory"][r] = 1
          /\ disk.cost_file.saved
          /\ disk.cost_file.shape = <<>>
          /\ disk.cost_file.value = SumTo(cost_memory, SAMPLING_STEPS - 1))
    /\ (pc # "done" => ~ disk.x_trag.saved /\ ~ disk.cost_file.saved)

\* C4 witness: the files are written and the per-tick costs differ.
C4_Witness ==
    /\ pc = "done"
    /\ disk.cost_file.saved
    /\ cost_memory[0] # cost_memory[SAMPLING_STEPS - 1]
    /\ cost_memory[SAMPLING_STEPS - 1] > 0
    /\ disk.cost_file.value > cost_memory[0]

\* C5: sampling_step is a valid row at every write of the per-tick arrays,
\* it counts the control ticks, every row is written at most once and, when
\* the loop has ended, exactly once (sampling_step = SAMPLING_STEPS).
C5_RowIndex ==
    /\ (pc \in {"load", "sample", "cost", "apply"} =>
          sampling_step \in 0 .. (SAMPLING_STEPS - 1))
    /\ sampling_step \in 0 .. SAMPLING_STEPS
    /\ \A n \in DOMAIN writes : \A r \in 0 .. (SAMPLING_STEPS - 1) :
          /\ (r < sampling_step => writes[n][r] = 1)
          /\ (r > sampling_step => writes[n][r] = 0)
          /\ writes[n][r] \in {0, 1}
    /\ DOMAIN writes = {"q_pos_memory", "x_pos_memory", "abs_dis_memory",
                        "single_time_set", "cost_memory", "ctl_memory"}
    /\ (pc = "loop" =>
          sampling_step = (panda_step + CONTROL_RATE - 1) \div CONTROL_RATE)
    /\ (pc \in {"report", "save", "done"} =>
          /\ sampling_step = SAMPLING_STEPS
          /\ \A n \in DOMAIN writes : \A r \in 0 .. (SAMPLING_STEPS - 1) :
                writes[n][r] = 1)

\* C5 witness: the loop has ended with every row written.
C5_Witness ==
    /\ pc = "report"
    /\ sampling_step = SAMPLING_STEPS
    /\ \A r \in 0 .. (SAMPLING_STEPS - 1) : writes["ctl_memory"][r] = 1
    /\ ctl_memory[SAMPLING_STEPS - 1] = 1
    /\ single_time_set[SAMPLING_STEPS - 1] > 0
    /\ q_pos_memory[0] # q_pos_memory[SAMPLING_STEPS - 1]

\* ------------------------------------------------------------------------
\* Properties of mpc_cost
\* ------------------------------------------------------------------------
\* the quadratic tracking cost as a sum over the indices of the horizon
TrackingCost(states, controls, Qw, Rw, Pw) ==
    LET H == Len(controls)
        PosSum[i \in 0 .. H] ==
            IF i = 0 THEN 0
            ELSE PosSum[i - 1]
                 + Qw * (states[i] - TARGET_POS) * (states[i] - TARGET_POS)
        IncSum[i \in 0 .. (H - 1)] ==
            IF i = 0 THEN 0
            ELSE IncSum[i - 1]
                 + Rw * (controls[i + 1] - controls[i])
                      * (controls[i + 1] - controls[i])
    IN  PosSum[H]
        + Pw * (states[H + 1] - TARGET_POS) * (states[H + 1] - TARGET_POS)
        + IncSum[H - 1]

\* C6: for H+1 positions and H controls mpc_cost is the sum of the Q-weighted
\* squared deviations of positions 0..H-1, the P-weighted one of position H
\* and R times the squares of the H-1 control increments, each exactly once.
C6_CostIsTrackingCost ==
    cpc = "returned" =>
        /\ Len(c_states) = Len(c_controls) + 1
        /\ c_cost = TrackingCost(c_states, c_controls, c_Q, c_R, c_P)

\* C6 witness: a call with distinct weights, distinct positions and
\* non-zero control increments has returned.
C6_Witness ==
    /\ cpc = "returned"
    /\ c_Q # c_P
    /\ c_states[1] # c_states[2]
    /\ c_states[CostHorizon] # c_states[CostHorizon + 1]
    /\ c_controls[1] # c_controls[2]
    /\ c_cost > 0

\* ------------------------------------------------------------------------
\* Properties of the training loop
\* ------------------------------------------------------------------------
\* the operations of a training step without the validation pass
CoreEvents(ev) ==
    SelectSeq(ev, LAMBDA e : e \notin {"validation", "forward_error"})

StepWithEma == <<"forward_loss", "zero_grad", "backward", "optimizer_step",
                 "ema_update", "increment">>

StepWithoutEma == <<"forward_loss", "zero_grad", "backward",
                    "optimizer_step", "increment">>

C7_Inv ==
    /\ (tevents # <<>> /\ tevents[1] = "forward_loss" =>
          \/ IsPrefix(CoreEvents(tevents), StepWithEma)
          \/ IsPrefix(CoreEvents(tevents), StepWithoutEma))
    /\ (tpc \in {"checkpoint", "stop_test"} =>
          /\ CoreEvents(tevents) \in {StepWithEma, StepWithoutEma}
          /\ ("ema_update" \in Range(tevents))
                <=> ((train_steps_current - 1) % update_ema_every = 0))

C7_Step ==
    \* the counter moves by one, after the optimizer step
    /\ (train_steps_current' # train_steps_current =>
          /\ train_steps_current' = train_steps_current + 1
          /\ tevents' = Append(tevents, "increment")
          /\ "optimizer_step" \in Range(tevents))
    \* the optimizer step follows the backward pass of this step's loss
    /\ (tevents' = Append(tevents, "optimizer_step") =>
          /\ tevents[Len(tevents)] = "backward"
          /\ model' = model - train_loss_batch)
    /\ (model' # model => tevents' = Append(tevents, "optimizer_step"))
    \* the EMA update follows the optimizer step and uses its result
    /\ (tevents' = Append(tevents, "ema_update") =>
          /\ tevents[Len(tevents)] = "optimizer_step"
          /\ model' = model
          /\ IF train_steps_current < step_start_ema
             THEN ema_model' = <<model, 1>>
             ELSE ema_model'[1] * (ema_model[2] * ema_decay_den)
                    = (ema_model[1] * ema_decay_num
                       + (ema_decay_den - ema_decay_num) * model
                         * ema_model[2]) * ema_model'[2])

\* C7: a training step is, in this order, forward pass and loss, zero_grad,
\* backward, optimizer step, the EMA update if it is due, and the increment
\* of train_steps_current by one; the EMA update takes the parameters the
\* optimizer step of the same training step has produced.
C7_StepOrder == []C7_Inv /\ [][C7_Step]_vars

\* C7 witness: a training step with a validation pass and a blending EMA
\* update has been counted.
C7_Witness ==
    /\ tpc = "checkpoint"
    /\ tevents = <<"forward_loss", "zero_grad", "backward", "optimizer_step",
                   "ema_update", "increment">>
    /\ train_steps_current - 1 >= step_start_ema
    /\ ema_model[2] > 1

\* number of periodic checkpoints that are due and written
C8_PeriodicSaves ==
    (IF tpc = "checkpoint" THEN train_steps_current - 1
     ELSE train_steps_current) \div steps_til_checkpoint

C8_Inv ==
    /\ (tpc = "initial_save" => checkpoints = <<>>)
    /\ (tpc \notin {"initial_save", "idle"} =>
          /\ Len(checkpoints)
               = 1 + C8_PeriodicSaves + (IF tpc = "finished" THEN 1 ELSE 0)
          /\ checkpoints[1].epoch = 0
          /\ checkpoints[1].total_steps = 0
          /\ checkpoints[1].model = 0
          /\ \A k \in 1 .. C8_PeriodicSaves :
                checkpoints[1 + k].total_steps = k * steps_til_checkpoint)
    /\ (tpc = "finished" =>
          /\ tevents = <<"final_ema_update", "final_save">>
          /\ checkpoints[Len(checkpoints)].total_steps = train_steps_current
          /\ checkpoints[Len(checkpoints)].model = model
          /\ checkpoints[Len(checkpoints)].ema_model = ema_model)

C8_Save ==
    /\ (checkpoints' # checkpoints =>
          /\ Len(checkpoints') = Len(checkpoints) + 1
          /\ SubSeq(checkpoints', 1, Len(checkpoints)) = checkpoints
          /\ checkpoints'[Len(checkpoints')].model = model
          /\ checkpoints'[Len(checkpoints')].ema_model = ema_model
          /\ checkpoints'[Len(checkpoints')].total_steps = train_steps_current
          /\ ema_model' = ema_model)
    /\ (tpc = "final_ema" => checkpoints' = checkpoints)

\* C8: the models are saved once before the first training step (epoch 0,
\* step 0), once each time the incremented train_steps_current is a positive
\* multiple of steps_til_checkpoint, and once after the loop, after the final
\* EMA update: the last save holds the finally updated EMA parameters.
C8_CheckpointPoints == []C8_Inv /\ [][C8_Save]_vars

\* C8 witness: training has finished; the last periodic save was made at the
\* final step count and holds EMA parameters the final update has replaced.
C8_Witness ==
    /\ tpc = "finished"
    /\ Len(checkpoints) >= 4
    /\ checkpoints[Len(checkpoints) - 1].total_steps = train_steps_current
    /\ checkpoints[Len(checkpoints) - 1].ema_model
          # checkpoints[Len(checkpoints)].ema_model

C9_Step ==
    /\ (ema_model' # ema_model =>
          \/ tpc = "ema" /\ train_steps_current % update_ema_every = 0
          \/ tpc = "final_ema")
    /\ (tevents' = Append(tevents, "increment")
          /\ train_steps_current % update_ema_every # 0 =>
             /\ "optimizer_step" \in Range(tevents)
             /\ ~ ("ema_update" \in Range(tevents)))
    /\ (tevents' = Append(tevents, "optimizer_step") => model' # model)

\* C9: the EMA parameters change only on the training steps whose
\* train_steps_current is a multiple of update_ema_every and in the update
\* after the loop; every other training step leaves them as they are while
\* its optimizer step changes the trained parameters.
C9_EmaFrame == [][C9_Step]_vars

\* C9 witness: a training step that is not due for the EMA update has made
\* its optimizer step, after an earlier blending update.
C9_Witness ==
    /\ tpc = "increment"
    /\ train_steps_current % update_ema_every # 0
    /\ train_steps_current > step_start_ema
    /\ "optimizer_step" \in Range(tevents)
    /\ ema_model[2] > 1
    /\ ema_model # <<model, 1>>

\* number of validation passes that are complete at the current position
C10_PassesDone ==
    IF tpc \in {"zero_grad", "backward", "optimizer_step", "ema",
                "increment"}
    THEN train_steps_current \div steps_til_summary + 1
    ELSE (train_steps_current + steps_til_summary - 1)
            \div steps_til_summary

\* C10: a validation pass runs exactly on the training steps whose
\* train_steps_current is a multiple of steps_til_summary (0 included) when
\* there is a validation loader, and a pass evaluates at most
\* steps_per_validation batches.
C10_ValidationPasses ==
    tpc \notin {"crashed", "idle"} =>
       /\ Len(validation_losses_l)
            = (IF val_dataloader.none THEN 0 ELSE C10_PassesDone)
       /\ \A i \in 1 .. Len(validation_losses_l) :
             validation_losses_l[i].step = (i - 1) * steps_til_summary
       /\ Len(val_losses) <= steps_per_validation

\* ------------------------------------------------------------------------
\* C11: every epoch processes exactly len(train_dataloader)-1 batches and
\* never the last batch of the loader, so a run that reaches the end of the
\* script has train_steps_current = (len(train_dataloader)-1)*epochs, which
\* is the total given to the progress bar, and the bar is full.
\* ------------------------------------------------------------------------
BatchesPerEpoch == Len(train_dataloader) - 1

\* stages of a training step before / after line 496
BeforeIncrement == {"forward", "summary", "val_loop", "val_done", "zero_grad",
                    "backward", "optimizer_step", "ema", "increment"}

AfterIncrement == {"checkpoint", "stop_test"}

C12_ReportedFinalDistance ==
    pc \in {"save", "done"}
        => /\ reported = Abs(x_last_pos - TARGET_POS)
           /\ x_last_pos = data.xpos

\* ------------------------------------------------------------------------
\* C13: the first position of the rollout the cost is evaluated on equals
\* the end-effector position gathered from the main simulator at that
\* control tick, and the rollout starts from the main simulator's state at
\* that tick (same joint positions and joint velocities).
\* ------------------------------------------------------------------------
C13_RolloutStartsAtMainState ==
    pc = "cost"
        => /\ diffusion_predicted_states[1] = x_current_pos
           /\ x_current_pos = data.xpos
           /\ new_data_cost(q_current_pos).qpos = data.qpos
           /\ new_data_cost(q_current_pos).qvel = data.qvel

\* ------------------------------------------------------------------------
\* C14: computing the rollout and its cost at a control tick leaves the
\* main simulator's state (joint positions, velocities, actuator controls,
\* simulated time) unchanged; the rollout steps only its own data.
\* ------------------------------------------------------------------------
C14_Step ==
    pc \in {"rollout", "cost"}
        => /\ data'.qpos = data.qpos
           /\ data'.qvel = data.qvel
           /\ data'.ctrl = data.ctrl
           /\ data'.time = data.time
           /\ data' = data

C14_RolloutFrame == [][C14_Step]_vars

\* after a rollout and its cost: the rollout's own data has moved and been
\* stepped HORIZON+1 times, the main simulator is where the tick found it
C14_Witness ==
    /\ pc = "apply"
    /\ Last(events) = "mpc_cost"
    /\ cost > 0
    /\ diffusion_predicted_states[HORIZON + 1] # diffusion_predicted_states[1]
    /\ LET data_cost == rollout_data(mj_step(new_data_cost(q_current_pos)),
                                     inputs_final, HORIZON)
       IN  /\ data_cost.time = HORIZON + 1
           /\ data_cost.qpos # data.qpos
    /\ data.qpos = q_current_pos
    /\ data.time = panda_step + 1

\* ------------------------------------------------------------------------
\* C15: data.ctrl is written only on iterations whose index is a multiple
\* of CONTROL_RATE and is left unchanged by every other iteration, so the
\* control applied at a tick is held on the actuators for exactly
\* CONTROL_RATE consecutive physics steps.
\* ------------------------------------------------------------------------
C15_Inv ==
    /\ pc = "apply" => IsControlTick(panda_step)
    /\ pc = "step" => /\ sampling_step = panda_step \div CONTROL_RATE + 1
                      /\ data.ctrl = ctl_memory[panda_step \div CONTROL_RATE]

C15_Step ==
    /\ pc # "apply" => data'.ctrl = data.ctrl
    /\ (pc \in {"loop", "step"} /\ ~ IsControlTick(panda_step))
           => data'.ctrl = data.ctrl
    /\ pc = "apply" => data'.ctrl = applied_input(inputs_final)

C15_ControlHeld == []C15_Inv /\ [][C15_Step]_vars

\* the last physics step of a period runs with the control written at the
\* period's tick, which differs from the control of the period before
C15_Witness ==
    /\ pc = "step"
    /\ panda_step % CONTROL_RATE = CONTROL_RATE - 1
    /\ panda_step \div CONTROL_RATE = 1
    /\ data.ctrl = ctl_memory[1]
    /\ ctl_memory[1] # ctl_memory[0]
    /\ data.ctrl # 0

\* ------------------------------------------------------------------------
\* C16: an EMA update made while train_steps_current < step_start_ema first
\* resets the EMA model to the model's parameters, so right after it the
\* EMA parameters equal the model's parameters; an update made at a step
\* >= step_start_ema blends the old EMA parameters, weighted ema_decay,
\* with the model's parameters, weighted 1 - ema_decay.  Parameters are
\* exact fractions here.
\* ------------------------------------------------------------------------
EmaUpdating ==
    \/ tpc = "ema" /\ use_ema /\ train_steps_current % update_ema_every = 0
    \/ tpc = "final_ema" /\ use_ema

\* new = ema_decay * old + (1 - ema_decay) * current, cross-multiplied
IsBlend(new, old, current) ==
    new[1] * old[2] * ema_decay_den
        = (old[1] * ema_decay_num
           + (ema_decay_den - ema_decay_num) * current * old[2]) * new[2]

C16_Inv ==
    (/\ tpc = "increment"
     /\ Last(tevents) = "ema_update"
     /\ train_steps_current < step_start_ema)
        => ema_model = <<model, 1>>

C16_Step ==
    EmaUpdating
        => IF train_steps_current < step_start_ema
           THEN ema_model' = <<model, 1>>
           ELSE IsBlend(ema_model', ema_model, model)

C16_EmaWarmup == []C16_Inv /\ [][C16_Step]_vars

\* an early update has overwritten an EMA that differed from the model
C16_Witness ==
    /\ tpc = "increment"
    /\ Last(tevents) = "ema_update"
    /\ train_steps_current < step_start_ema
    /\ model # 0
    /\ ema_model = <<model, 1>>
    /\ checkpoints[1].ema_model # ema_model

\* a late update has blended: the EMA lies strictly between its old value
\* and the model
C16_WitnessBlend ==
    /\ tpc = "increment"
    /\ Last(tevents) = "ema_update"
    /\ train_steps_current >= step_start_ema
    /\ ema_model[2] # 1
    /\ ema_model # <<model, 1>>

\* ------------------------------------------------------------------------
\* C17: on every training step, also when a validation pass runs between
\* the loss computation and the optimization, the quantity back-propagated
\* is train_loss_batch, the loss of that step's training batch; the
\* validation pass rebinds loss and single_loss but never changes the value
\* that is back-propagated.
\* ------------------------------------------------------------------------
C17_Step ==
    \* the forward pass binds train_loss_batch to the loss of the batch
    /\ (tpc = "forward" /\ tpc' = "summary")
           => /\ loss' \in {<<l>> : l \in LossVals}
              /\ train_loss_batch' = loss'[1]
    \* the summary and the validation pass leave it alone
    /\ tpc \in {"summary", "val_loop", "val_done", "zero_grad"}
           => train_loss_batch' = train_loss_batch
    \* the gradient left by the backward pass is that of train_loss_batch
    /\ tpc = "backward"
           => /\ grad' = train_loss_batch
              /\ train_loss_batch' = train_loss_batch

C17_BackpropTrainLoss == [][C17_Step]_vars

\* a later step with a validation pass: both names were rebound, the
\* gradient is still that of the step's training loss
C17_Witness ==
    /\ tpc = "optimizer_step"
    /\ train_steps_current > 0
    /\ CoreEvents(tevents) = <<"forward_loss", "zero_grad", "backward">>
    /\ "validation" \in Range(tevents)
    /\ single_loss # train_loss_batch
    /\ loss # <<train_loss_batch>>
    /\ grad = train_loss_batch

\* ------------------------------------------------------------------------
\* C18: with loaders that yield full batches of batch_size samples except
\* possibly their last batch, every batch passed to AMPCNet.forward, in the
\* training steps and in the validation passes, has exactly 512 samples,
\* so the reshape to 512 samples never fails.
\* ------------------------------------------------------------------------
C18_FullBatchesOnly ==
    \* the batch the training step is about to pass to the model
    /\ tpc = "forward" => train_dataloader[step + 1] = 512
    \* the batch the validation loop is about to pass to the model
    /\ (tpc = "val_loop" /\ step_val + 1 < Len(val_dataloader.sizes))
           => val_dataloader.sizes[step_val + 2] = 512
    \* no forward pass has failed
    /\ tpc # "crashed"
    /\ "forward_error" \notin Range(tevents)

====
